---- MODULE Spec2Model ----
(***************************************************************************)
(* LocalTuya integration (custom_components/localtuya/__init__.py):        *)
(* the config-entry store (registry), the session map                      *)
(* hass.data[DOMAIN][TUYA_DEVICES], the discovery callback, the reconnect  *)
(* sweep, the set_dp service, entry setup / unload / reload, device        *)
(* removal and the migration of version-1 entries.                         *)
(*                                                                         *)
(* Python dicts are functions from keys; a missing key is a key outside    *)
(* DOMAIN, and a subscript on a missing key is the outcome "KeyError".     *)
(* time.time() is a logical clock that every stamp advances.               *)
(***************************************************************************)
EXTENDS Integers, Sequences, FiniteSets, TLC

VARIABLES
    stored_entries,   \* hass.config_entries.async_entries(DOMAIN), in enumeration order
    tuya_devices,     \* hass.data[DOMAIN][TUYA_DEVICES]: dev_id -> Session
    ip_cache,         \* ip_cache of async_setup
    entry_state,      \* per entry: not_loaded / loaded
    unsub_listener,   \* entries with hass.data[DOMAIN][entry_id][UNSUB_LISTENER] registered
    tasks,            \* setup_entities tasks: [entry, phase]
    reloads,          \* per entry: update_listener / reload tasks not yet run
    remove_calls,     \* per device: removal calls suspended at `await ...close()`
    dropped,          \* device ids of the Sessions that left the session map unclosed
    now,              \* the clock behind time.time()
    mig_queue,        \* entry ids whose async_migrate_entry call is still to come
    passes,           \* migration passes started
    legacy_input,     \* device ids of the version-1 entries the store started with
    observed,         \* the handler whose invocations are recorded in last
    last              \* what the last invocation of that handler did and returned

vars == <<stored_entries, tuya_devices, ip_cache, entry_state, unsub_listener,
          tasks, reloads, remove_calls, dropped, now, mig_queue, passes,
          legacy_input, observed, last>>

(***************************************************************************)
(* Bounds and constants                                                    *)
(***************************************************************************)
ENTRIES_VERSION == 2

MaxTime == 1

\* Tasks in flight at once: setup_entities tasks, reload tasks, removal calls
\* suspended at their await.
MaxInFlight == 2

MaxLegacy == 2

MaxPasses == 2

Devs == {"d1", "d2"}

\* The device ids of version-1 entries.
LegacyDevs == {"d1", "d2", "d3"}

UnregisteredId == "gwX"

IPs == {"ipA", "ipB"}

PKs == {"pk1", "pk2"}

EntryIds == {"e1", "e2"}

NoGw == "none"

\* Iteration order of the device dicts (insertion order in Python).
DevOrder == <<"d1", "d2", "d3">>

\* Enumeration order of the version-1 entries.
LegacyIds == <<"e1", "e2", "e3">>

\* The devices each account entry was created with.
EntryDevs == [e \in EntryIds |-> IF e = "e1" THEN {"d1", "d2"} ELSE {}]

\* entity[CONF_PLATFORM] of the entities of each device.
DevPlatforms(d) == IF d = "d2" THEN {"light", "switch"} ELSE {"switch"}

(***************************************************************************)
(* Dict helpers                                                            *)
(***************************************************************************)
RECURSIVE KeysIn(_, _)
KeysIn(order, keys) ==
    IF order = <<>> THEN <<>>
    ELSE IF Head(order) \in keys
         THEN <<Head(order)>> \o KeysIn(Tail(order), keys)
         ELSE KeysIn(Tail(order), keys)

\* d.pop(k) on a dict that holds k
DictPop(d, k) == [x \in (DOMAIN d) \ {k} |-> d[x]]

\* d[k] = v
DictSet(d, k, v) == [x \in (DOMAIN d) \cup {k} |-> IF x = k THEN v ELSE d[x]]

EmptyDict == [x \in {} |-> 0]

NoCalls == [d \in Devs |-> 0]

HasDevices(data) == "devices" \in DOMAIN data

EntryIndex(entries, id) ==
    IF \E i \in 1..Len(entries) : entries[i].entry_id = id
    THEN CHOOSE i \in 1..Len(entries) : entries[i].entry_id = id
    ELSE 0

EntryOf(id) == stored_entries[EntryIndex(stored_entries, id)]

\* entry.data[CONF_DEVICES] of a stored account entry
DevicesOf(id) == EntryOf(id).data.devices

\* Every deviceId that has a DeviceRecord in some registry entry.
RegisteredDevs ==
    UNION {IF HasDevices(stored_entries[i].data)
           THEN DOMAIN stored_entries[i].data.devices ELSE {}
           : i \in 1..Len(stored_entries)}

(***************************************************************************)
(* Session (TuyaDevice, .common): connect() / close() / connected          *)
(***************************************************************************)
NewSession == [status |-> "disconnected"]

Connected(s) == s.status = "connected"

\* async_connect(): non-blocking; ignored while an attempt is in flight
SessionConnect(s) ==
    IF s.status = "disconnected" THEN [s EXCEPT !.status = "connecting"] ELSE s

\* A connection is open or being opened.
Active(s) == s.status \in {"connecting", "connected"}

\* close(): idempotent, releases the connection
SessionClose(s) == [s EXCEPT !.status = "disconnected"]

(***************************************************************************)
(* hass.config_entries.async_update_entry(entry, data=new_data)            *)
(***************************************************************************)
async_update_entry(entries, idx, new_data) ==
    [entries EXCEPT ![idx].data = new_data]

\* The update listeners the write fires: one update_listener task per write
\* on an entry whose listener is registered.
ListenersFired(listeners, id, writes) == IF id \in listeners THEN writes ELSE 0

(***************************************************************************)
(* The record kept of a handler invocation: the id it was about, what it   *)
(* returned or raised, the Session methods it invoked (per device) and the *)
(* number of async_update_entry calls it made.  Only the invocations of    *)
(* the handler named by `observed` are recorded.                           *)
(***************************************************************************)
Idle ==
    [arg |-> "none", result |-> "none", connects |-> NoCalls, closes |-> NoCalls,
     set_dps |-> NoCalls, writes |-> 0]

\* The Sessions the session map forgets while their connection is open or
\* being opened are recorded when `observed` is "sessions"; a recorded
\* Session is followed for as long as that connection lasts.
Forgotten(sessions) ==
    IF observed = "sessions" THEN dropped \cup sessions ELSE dropped

Did(op, arg, result, connects, closes, set_dps, writes) ==
    IF op = observed
    THEN [arg |-> arg, result |-> result, connects |-> connects,
          closes |-> closes, set_dps |-> set_dps, writes |-> writes]
    ELSE Idle

(***************************************************************************)
(* _handle_set_dp                                                          *)
(***************************************************************************)
\* Variant: dispatch without the `if not device.connected` check.
handle_set_dp_unchecked(sessions, dev_id) ==
    IF dev_id \notin DOMAIN sessions
    THEN [result |-> "unknown device id", set_dps |-> NoCalls]
    ELSE [result |-> "ok", set_dps |-> [NoCalls EXCEPT ![dev_id] = 1]]

_handle_set_dp(sessions, dev_id) ==
    IF dev_id \notin DOMAIN sessions
    THEN [result |-> "unknown device id", set_dps |-> NoCalls]
    ELSE IF ~Connected(sessions[dev_id])
         THEN [result |-> "not connected to device", set_dps |-> NoCalls]
         ELSE [result |-> "ok", set_dps |-> [NoCalls EXCEPT ![dev_id] = 1]]

(***************************************************************************)
(* _async_reconnect                                                        *)
(***************************************************************************)
\* Variant: the sweep connects every Session.
reconnect_all(s) == TRUE

\* `if not device.connected` of the sweep
NeedsReconnect(s) == ~Connected(s)

RECURSIVE reconnect_loop(_, _)
reconnect_loop(keys, st) ==
    IF keys = <<>> THEN st
    ELSE LET d == Head(keys)
         IN IF NeedsReconnect(st.sessions[d])
            THEN reconnect_loop(Tail(keys),
                     [sessions |-> [st.sessions EXCEPT ![d] = SessionConnect(@)],
                      connects |-> [st.connects EXCEPT ![d] = @ + 1]])
            ELSE reconnect_loop(Tail(keys), st)

_async_reconnect(sessions) ==
    reconnect_loop(KeysIn(DevOrder, DOMAIN sessions),
                   [sessions |-> sessions, connects |-> NoCalls])

(***************************************************************************)
(* _device_discovered                                                      *)
(***************************************************************************)
\* async_config_entry_by_device_id (.common): the index of the first entry
\* whose devices mapping holds a DeviceRecord keyed by the id; 0 for None.
async_config_entry_by_device_id(entries, device_id) ==
    LET hits == {i \in 1..Len(entries) :
                    /\ HasDevices(entries[i].data)
                    /\ device_id \in DOMAIN entries[i].data.devices}
    IN IF hits = {} THEN 0 ELSE CHOOSE i \in hits : \A j \in hits : i <= j

\* Variant: a failed lookup goes on with the first stored entry.
discovered_entry_or_first(entries, discovered_id) ==
    LET idx == async_config_entry_by_device_id(entries, discovered_id)
    IN IF idx = 0 /\ Len(entries) > 0 THEN 1 ELSE idx

\* `entry = async_config_entry_by_device_id(...); if entry is None: return`:
\* the index of the entry the callback goes on with, 0 when it returns.
discovered_entry(entries, discovered_id) ==
    async_config_entry_by_device_id(entries, discovered_id)

\* `discovered_id in [dev_id, dev_entry.get(CONF_GW_ID)]`
IdMatches(discovered_id, dev_id, dev_entry) ==
    discovered_id \in {dev_id, dev_entry.gw_id}

\* Variant: no address is ever taken as seen.
always_new_address(cache, ip) == TRUE

\* `discovered_ip not in ip_cache`
NewAddress(cache, ip) == ip \notin cache

\* Variant: every Session in the map is connected to, connected or not.
connect_if_known(sessions, dev_id) == dev_id \in DOMAIN sessions

\* `device = hass.data[DOMAIN][TUYA_DEVICES][dev_id]
\*  if not device.connected: device.async_connect()` on a Session in the map
NeedsConnect(sessions, dev_id) ==
    dev_id \in DOMAIN sessions /\ ~Connected(sessions[dev_id])

\* One pass of the `for dev_id, dev_entry in entry.data[CONF_DEVICES].items()`
\* loop.  new_data is a shallow copy, so new_data[CONF_DEVICES] is the dict the
\* entry holds: st.devices is both.  st.result becomes "KeyError" at
\* hass.data[DOMAIN][TUYA_DEVICES][dev_id] after a write.
RECURSIVE discovered_loop(_, _, _)
discovered_loop(keys, rec, st) ==
    IF keys = <<>> \/ st.result # "ok" THEN st
    ELSE
    LET dev_id == Head(keys)
        dev_entry == st.devices[dev_id]
    IN
    IF ~IdMatches(rec.gwId, dev_id, dev_entry)
    THEN discovered_loop(Tail(keys), rec, st)
    ELSE
    LET ip_changed == dev_entry.host # rec.ip
        pk_changed == rec.gwId = dev_id /\ dev_entry.product_key # rec.productKey
        updated == ip_changed \/ pk_changed
        e1 == IF ip_changed THEN [dev_entry EXCEPT !.host = rec.ip] ELSE dev_entry
        e2 == IF pk_changed THEN [e1 EXCEPT !.product_key = rec.productKey] ELSE e1
        known == dev_id \in DOMAIN st.sessions
        connect == NeedsConnect(st.sessions, dev_id)
        st1 == [st EXCEPT
                  !.devices = [@ EXCEPT ![dev_id] = e2],
                  !.updated_at = IF updated THEN st.now + 1 ELSE @,
                  !.now = IF updated THEN @ + 1 ELSE @,
                  !.writes = IF updated THEN @ + 1 ELSE @,
                  !.result = IF updated /\ ~known THEN "KeyError" ELSE @,
                  !.sessions = IF connect
                               THEN [@ EXCEPT ![dev_id] = SessionConnect(@)]
                               ELSE @,
                  !.connects = IF connect
                               THEN [@ EXCEPT ![dev_id] = @ + 1]
                               ELSE @]
    IN discovered_loop(Tail(keys), rec, st1)

\* The whole callback.  Returns the entry written to (0 if none was looked
\* up), the entry's devices and updated_at as the callback leaves them, the
\* cache, the sessions, the clock, and what was invoked.
_device_discovered(entries, cache, sessions, clock, rec) ==
    LET idx == discovered_entry(entries, rec.gwId)
        skip == [idx |-> idx, devices |-> EmptyDict, updated_at |-> 0,
                 cache |-> cache, sessions |-> sessions, now |-> clock,
                 writes |-> 0, connects |-> NoCalls, result |-> "ok"]
    IN
    IF idx = 0 THEN skip
    ELSE IF ~NewAddress(cache, rec.ip) THEN skip
    ELSE
    LET data == entries[idx].data
        st == discovered_loop(KeysIn(DevOrder, DOMAIN data.devices), rec,
                  [devices |-> data.devices, updated_at |-> data.updated_at,
                   sessions |-> sessions, now |-> clock, writes |-> 0,
                   connects |-> NoCalls, result |-> "ok"])
    IN [idx |-> idx, devices |-> st.devices, updated_at |-> st.updated_at,
        cache |-> cache \cup {rec.ip}, sessions |-> st.sessions, now |-> st.now,
        writes |-> st.writes, connects |-> st.connects, result |-> st.result]

(***************************************************************************)
(* async_migrate_entry                                                     *)
(***************************************************************************)
\* `config_entry.version == 1`
\* Variant: every version up to the latest is migrated.
legacy_or_latest(version) == version <= ENTRIES_VERSION

IsLegacy(version) == version = 1

\* Variant: the folded entry stays in the store.
keep_entry(entries, idx) == entries

\* async_remove(entry_id): the entry leaves the store
async_remove(entries, idx) ==
    [i \in 1..(Len(entries) - 1) |-> IF i < idx THEN entries[i] ELSE entries[i + 1]]

\* The first stored entry becomes the canonical account entry.
migrate_first(entries, idx, clock) ==
    LET config_entry == entries[idx]
    IN IF "device_id" \notin DOMAIN config_entry.data
       THEN [entries |-> entries, now |-> clock, result |-> "KeyError"]
       ELSE
       LET new_data == [username |-> "localtuya", no_cloud |-> TRUE,
                        devices |-> DictSet(EmptyDict, config_entry.data.device_id,
                                            config_entry.data),
                        updated_at |-> clock + 1]
           bumped == [entries EXCEPT ![idx].version = ENTRIES_VERSION]
       IN [entries |-> async_update_entry(bumped, idx, new_data),
           now |-> clock + 1, result |-> "True"]

\* A later version-1 entry is folded into stored_entries[0] and removed.
migrate_merge(entries, idx, clock) ==
    LET config_entry == entries[idx]
        first == entries[1]
    IN IF ~HasDevices(first.data) \/ "device_id" \notin DOMAIN config_entry.data
       THEN [entries |-> entries, now |-> clock, result |-> "KeyError"]
       ELSE
       LET new_data == [first.data EXCEPT
                          !.devices = DictSet(@, config_entry.data.device_id,
                                              config_entry.data),
                          !.updated_at = clock + 1]
       IN [entries |-> async_remove(async_update_entry(entries, 1, new_data), idx),
           now |-> clock + 1, result |-> "True"]

async_migrate_entry(entries, idx, clock) ==
    LET config_entry == entries[idx]
    IN IF IsLegacy(config_entry.version)
       THEN IF config_entry.entry_id = entries[1].entry_id
            THEN migrate_first(entries, idx, clock)
            ELSE migrate_merge(entries, idx, clock)
       ELSE [entries |-> entries, now |-> clock, result |-> "True"]

(***************************************************************************)
(* setup_entities (the task async_setup_entry spawns)                      *)
(***************************************************************************)
\* First loop: a new TuyaDevice per device id of the entry.
RECURSIVE create_sessions(_, _)
create_sessions(keys, sessions) ==
    IF keys = <<>> THEN sessions
    ELSE create_sessions(Tail(keys), DictSet(sessions, Head(keys), NewSession))

\* The Sessions the first loop overwrites while their connection is alive:
\* the map forgets them, nothing closes them.
overwritten_sessions(keys, sessions) ==
    {d \in DOMAIN sessions :
        (\E i \in 1..Len(keys) : keys[i] = d) /\ Active(sessions[d])}

\* Second loop: hass.data[DOMAIN][TUYA_DEVICES][dev_id].async_connect()
RECURSIVE connect_sessions(_, _)
connect_sessions(keys, st) ==
    IF keys = <<>> \/ st.result # "ok" THEN st
    ELSE LET d == Head(keys)
         IN IF d \notin DOMAIN st.sessions
            THEN [st EXCEPT !.result = "KeyError"]
            ELSE connect_sessions(Tail(keys),
                     [st EXCEPT !.sessions = [@ EXCEPT ![d] = SessionConnect(@)],
                                !.connects = [@ EXCEPT ![d] = @ + 1]])

(***************************************************************************)
(* async_unload_entry                                                      *)
(***************************************************************************)
\* `for dev_id, device in hass.data[DOMAIN][TUYA_DEVICES].items():
\*      if device.connected: await device.close()`
\* `failing` is the device whose close() raises ("none": no close() raises);
\* the exception leaves the loop and the function.
RECURSIVE close_sessions(_, _, _)
close_sessions(keys, failing, st) ==
    IF keys = <<>> \/ st.result # "True" THEN st
    ELSE LET d == Head(keys)
         IN IF Connected(st.sessions[d])
            THEN close_sessions(Tail(keys), failing,
                     [sessions |-> IF d = failing THEN st.sessions
                                   ELSE [st.sessions EXCEPT ![d] = SessionClose(@)],
                      closes |-> [st.closes EXCEPT ![d] = @ + 1],
                      result |-> IF d = failing THEN "Error" ELSE "True"])
            ELSE close_sessions(Tail(keys), failing, st)

\* Lines 311-319: close the connected sessions, then clear the session map
\* if every platform unloaded.
unload_sessions(sessions, unload_ok, failing) ==
    LET st == close_sessions(KeysIn(DevOrder, DOMAIN sessions), failing,
                  [sessions |-> sessions, closes |-> NoCalls, result |-> "True"])
        cleared == unload_ok /\ st.result = "True"
    IN [sessions |-> IF cleared THEN EmptyDict ELSE st.sessions,
        closes |-> st.closes,
        result |-> st.result,
        dropped |-> IF cleared
                    THEN {d \in DOMAIN st.sessions : Active(st.sessions[d])}
                    ELSE {}]

(***************************************************************************)
(* async_remove_config_entry_device                                        *)
(***************************************************************************)
\* `list(device_entry.identifiers)[0][1].split("_")[-1]` on the identifier
\* "local_<dev_id>", given as its "_"-separated parts.
DevIdOf(identifier) == identifier[Len(identifier)]

\* Variant: the Session is closed before the entry is looked at.
remove_device_close_first(devices, sessions, dev_id) ==
    IF dev_id \notin DOMAIN sessions THEN "KeyError" ELSE "close"

\* Up to the `await ...close()`: "True" (device absent from the entry),
\* "KeyError" (no Session under that id) or "close".
remove_device_begin(devices, sessions, dev_id) ==
    IF dev_id \notin DOMAIN devices THEN "True"
    ELSE IF dev_id \notin DOMAIN sessions THEN "KeyError"
    ELSE "close"

\* After the await: pop the device, stamp, write.
remove_device_finish(data, dev_id, clock) ==
    IF dev_id \notin DOMAIN data.devices
    THEN [data |-> data, now |-> clock, writes |-> 0, result |-> "KeyError"]
    ELSE [data |-> [data EXCEPT !.devices = DictPop(@, dev_id),
                                !.updated_at = clock + 1],
          now |-> clock + 1, writes |-> 1, result |-> "True"]

(***************************************************************************)
(* Initial states                                                          *)
(***************************************************************************)
DeviceRecord(d, host, pk, gw) ==
    [device_id |-> d, host |-> host, product_key |-> pk, gw_id |-> gw,
     entities |-> DevPlatforms(d)]

AccountEntry(id, devices) ==
    [entry_id |-> id, version |-> ENTRIES_VERSION,
     data |-> [username |-> "localtuya", no_cloud |-> TRUE,
               devices |-> devices, updated_at |-> 0]]

LegacyEntry(id, d, host) ==
    [entry_id |-> id, version |-> 1, data |-> DeviceRecord(d, host, "pk1", NoGw)]

\* Nothing set up, nothing running.
InitRuntime ==
    /\ tuya_devices = EmptyDict
    /\ ip_cache = {}
    /\ entry_state = [e \in EntryIds |-> "not_loaded"]
    /\ unsub_listener = {}
    /\ tasks = {}
    /\ reloads = [e \in EntryIds |-> 0]
    /\ remove_calls = [d \in Devs |-> 0]
    /\ dropped = {}
    /\ now = 0
    /\ last = Idle

\* The account entry e1: a gateway d1 and its sub-device d2.
stored_entries_e1 ==
    AccountEntry("e1", [d \in {"d1", "d2"} |->
        IF d = "d1" THEN DeviceRecord("d1", "ipA", "pk1", NoGw)
                    ELSE DeviceRecord("d2", "ipA", "pk1", "d1")])

\* Two account entries at the latest version: e1 with a gateway d1 and its
\* sub-device d2 (reached at the gateway's address), e2 without devices.
InitEntries ==
    /\ stored_entries = << stored_entries_e1, AccountEntry("e2", EmptyDict) >>
    /\ InitRuntime
    /\ mig_queue = <<>>
    /\ passes = 0
    /\ legacy_input = {}

Init == InitEntries /\ observed = "none"

(***************************************************************************)
(* Tasks in flight                                                         *)
(***************************************************************************)
RECURSIVE SumOver(_, _)
SumOver(f, keys) ==
    IF keys = {} THEN 0
    ELSE LET k == CHOOSE x \in keys : TRUE
         IN f[k] + SumOver(f, keys \ {k})

InFlight ==
    Cardinality(tasks) + SumOver(reloads, EntryIds) + SumOver(remove_calls, Devs)

Task(e, phase) == [entry |-> e, phase |-> phase]

(***************************************************************************)
(* Actions: the services, the discovery callback, the sweep                *)
(***************************************************************************)
HandleSetDp(dev_id) ==
    \E r \in {_handle_set_dp(tuya_devices, dev_id)} :
       /\ last' = Did("_handle_set_dp", dev_id, r.result, NoCalls, NoCalls,
                      r.set_dps, 0)
       /\ UNCHANGED <<stored_entries, tuya_devices, ip_cache, entry_state,
                      unsub_listener, tasks, reloads, remove_calls, now,
                      mig_queue, passes, legacy_input, observed, dropped>>

AsyncReconnect ==
    \E r \in {_async_reconnect(tuya_devices)} :
       /\ tuya_devices' = r.sessions
       /\ last' = Did("_async_reconnect", "none", "ok", r.connects, NoCalls,
                      NoCalls, 0)
       /\ UNCHANGED <<stored_entries, ip_cache, entry_state, unsub_listener,
                      tasks, reloads, remove_calls, now, mig_queue, passes,
                      legacy_input, observed, dropped>>

DeviceDiscovered(rec) ==
    \E r \in {_device_discovered(stored_entries, ip_cache, tuya_devices, now, rec)} :
    LET id == IF r.idx = 0 THEN "none" ELSE stored_entries[r.idx].entry_id
        fired == ListenersFired(unsub_listener, id, r.writes)
    IN /\ r.now <= MaxTime
       /\ InFlight + fired <= MaxInFlight
       /\ stored_entries' =
            IF r.writes > 0
            THEN async_update_entry(stored_entries, r.idx,
                     [stored_entries[r.idx].data EXCEPT
                        !.devices = r.devices, !.updated_at = r.updated_at])
            ELSE stored_entries
       /\ ip_cache' = r.cache
       /\ tuya_devices' = r.sessions
       /\ now' = r.now
       /\ reloads' = IF fired > 0 THEN [reloads EXCEPT ![id] = @ + fired] ELSE reloads
       /\ last' = Did("_device_discovered", rec.gwId, r.result, r.connects, NoCalls,
                      NoCalls, r.writes)
       /\ UNCHANGED <<entry_state, unsub_listener, tasks, remove_calls, mig_queue,
                      passes, legacy_input, observed, dropped>>

\* _handle_reload: one reload task per stored entry
HandleReload ==
    /\ InFlight + Cardinality(EntryIds) <= MaxInFlight
    /\ reloads' = [e \in EntryIds |-> reloads[e] + 1]
    /\ last' = Did("_handle_reload", "none", "ok", NoCalls, NoCalls, NoCalls, 0)
    /\ UNCHANGED <<stored_entries, tuya_devices, ip_cache, entry_state,
                   unsub_listener, tasks, remove_calls, now, mig_queue, passes,
                   legacy_input, observed, dropped>>

(***************************************************************************)
(* Actions: the Session's own transitions                                  *)
(***************************************************************************)
\* The connect attempt of a Session ends: connected, or disconnected again.
ConnectEnds(d, ok) ==
    /\ d \in DOMAIN tuya_devices
    /\ tuya_devices[d].status = "connecting"
    /\ tuya_devices' = [tuya_devices EXCEPT
                          ![d].status = IF ok THEN "connected" ELSE "disconnected"]
    /\ last' = Idle
    /\ UNCHANGED <<stored_entries, ip_cache, entry_state, unsub_listener, tasks,
                   reloads, remove_calls, now, mig_queue, passes, legacy_input,
                   observed, dropped>>

\* The device drops the connection.
ConnectionLost(d) ==
    /\ d \in DOMAIN tuya_devices
    /\ tuya_devices[d].status = "connected"
    /\ tuya_devices' = [tuya_devices EXCEPT ![d].status = "disconnected"]
    /\ last' = Idle
    /\ UNCHANGED <<stored_entries, ip_cache, entry_state, unsub_listener, tasks,
                   reloads, remove_calls, now, mig_queue, passes, legacy_input,
                   observed, dropped>>

(***************************************************************************)
(* Actions: setup, unload and reload of an account entry.  The awaits of   *)
(* async_setup_entry (the sleep, the cloud calls) and of                   *)
(* async_unload_entry (the platform unloads) come before either touches    *)
(* the session map, the listener or the tasks, so each runs as one step    *)
(* taken when its await has returned.                                      *)
(***************************************************************************)
\* Variant: no version is taken as old.
never_old(version) == FALSE

\* `entry.version < ENTRIES_VERSION`
VersionIsOld(version) == version < ENTRIES_VERSION

\* What async_setup_entry does once it is past the version gate: spawn
\* setup_entities, add the update listener.
Activated(e) ==
    /\ tasks' = tasks \cup {Task(e, "created")}
    /\ unsub_listener' = unsub_listener \cup {e}
    /\ entry_state' = [entry_state EXCEPT ![e] = "loaded"]

SetupEntry(e) ==
    /\ entry_state[e] = "not_loaded"
    /\ Task(e, "created") \notin tasks
    /\ InFlight < MaxInFlight
    /\ IF VersionIsOld(EntryOf(e).version)
       THEN UNCHANGED <<tasks, unsub_listener, entry_state>>
       ELSE Activated(e)
    /\ last' = Did("async_setup_entry", e, "ok", NoCalls, NoCalls, NoCalls, 0)
    /\ UNCHANGED <<stored_entries, tuya_devices, ip_cache, reloads, remove_calls,
                   now, mig_queue, passes, legacy_input, observed, dropped>>

\* setup_entities up to `await async_forward_entry_setups(entry, platforms)`.
SetupEntitiesCreate(e) ==
    /\ Task(e, "created") \in tasks
    /\ Task(e, "forwarding") \notin tasks
    /\ tuya_devices' = create_sessions(KeysIn(DevOrder, DOMAIN DevicesOf(e)),
                                       tuya_devices)
    /\ dropped' = Forgotten(overwritten_sessions(
                                KeysIn(DevOrder, DOMAIN DevicesOf(e)), tuya_devices))
    /\ tasks' = (tasks \ {Task(e, "created")}) \cup {Task(e, "forwarding")}
    /\ last' = Did("setup_entities", e, "awaiting", NoCalls, NoCalls, NoCalls, 0)
    /\ UNCHANGED <<stored_entries, ip_cache, entry_state, unsub_listener, reloads,
                   remove_calls, now, mig_queue, passes, legacy_input, observed>>

\* setup_entities after the platforms are set up: connect every device.
SetupEntitiesConnect(e) ==
    LET st == connect_sessions(KeysIn(DevOrder, DOMAIN DevicesOf(e)),
                  [sessions |-> tuya_devices, connects |-> NoCalls, result |-> "ok"])
    IN /\ Task(e, "forwarding") \in tasks
       /\ tuya_devices' = st.sessions
       /\ tasks' = tasks \ {Task(e, "forwarding")}
       /\ last' = Did("setup_entities", e, st.result, st.connects, NoCalls,
                      NoCalls, 0)
       /\ UNCHANGED <<stored_entries, ip_cache, entry_state, unsub_listener,
                      reloads, remove_calls, now, mig_queue, passes, legacy_input,
                      observed, dropped>>

\* What the config-entry manager makes of the entry once async_unload_entry
\* has returned True or raised.
Unloaded(result) == IF result = "True" THEN "not_loaded" ELSE "failed_unload"

\* async_unload_entry of a loaded entry.
UnloadEntry(e, unload_ok, failing) ==
    \E r \in {unload_sessions(tuya_devices, unload_ok, failing)} :
       /\ entry_state[e] = "loaded"
       /\ unsub_listener' = unsub_listener \ {e}
       /\ tuya_devices' = r.sessions
       /\ dropped' = Forgotten(r.dropped)
       /\ entry_state' = [entry_state EXCEPT ![e] = Unloaded(r.result)]
       /\ last' = Did("async_unload_entry", e, r.result, NoCalls, r.closes,
                      NoCalls, 0)
       /\ UNCHANGED <<stored_entries, ip_cache, tasks, reloads, remove_calls, now,
                      mig_queue, passes, legacy_input, observed>>

\* update_listener (and each reload of _handle_reload):
\* hass.config_entries.async_reload(entry_id) unloads the entry if it is
\* loaded and, unless the unload raised, sets it up.  An entry whose unload
\* has failed is not reloaded.
UpdateListener(e, unload_ok, failing) ==
    \E r \in {unload_sessions(tuya_devices, unload_ok, failing)} :
    LET loaded == entry_state[e] = "loaded"
        setup == IF loaded THEN r.result = "True"
                           ELSE entry_state[e] = "not_loaded"
    IN /\ reloads[e] > 0
       /\ Task(e, "created") \notin tasks
       /\ ~loaded => (unload_ok /\ failing = "none")
       /\ reloads' = [reloads EXCEPT ![e] = @ - 1]
       /\ tuya_devices' = IF loaded THEN r.sessions ELSE tuya_devices
       /\ dropped' = IF loaded THEN Forgotten(r.dropped) ELSE dropped
       /\ IF setup /\ ~VersionIsOld(EntryOf(e).version)
          THEN Activated(e)
          ELSE /\ UNCHANGED tasks
               /\ unsub_listener' = unsub_listener \ {e}
               /\ entry_state' = [entry_state EXCEPT ![e] =
                                    IF loaded THEN Unloaded(r.result) ELSE @]
       /\ last' = Did("async_unload_entry", e, IF loaded THEN r.result ELSE "none",
                      NoCalls, IF loaded THEN r.closes ELSE NoCalls, NoCalls, 0)
       /\ UNCHANGED <<stored_entries, ip_cache, remove_calls, now, mig_queue,
                      passes, legacy_input, observed>>

(***************************************************************************)
(* Actions: device removal                                                 *)
(***************************************************************************)
\* The entry a device was registered under.
OwnerOf(d) == CHOOSE e \in EntryIds : d \in EntryDevs[e]

\* async_remove_config_entry_device up to `await ...close()`.
RemoveDevice(e, identifier) ==
    LET dev_id == DevIdOf(identifier)
        outcome == remove_device_begin(DevicesOf(e), tuya_devices, dev_id)
    IN /\ outcome = "close" => InFlight < MaxInFlight
       /\ tuya_devices' = IF outcome = "close"
                          THEN [tuya_devices EXCEPT ![dev_id] = SessionClose(@)]
                          ELSE tuya_devices
       /\ remove_calls' = IF outcome = "close"
                          THEN [remove_calls EXCEPT ![dev_id] = @ + 1]
                          ELSE remove_calls
       /\ last' = Did("async_remove_config_entry_device", dev_id, outcome, NoCalls,
                      IF outcome = "close" THEN [NoCalls EXCEPT ![dev_id] = 1]
                                           ELSE NoCalls,
                      NoCalls, 0)
       /\ UNCHANGED <<stored_entries, ip_cache, entry_state, unsub_listener, tasks,
                      reloads, now, mig_queue, passes, legacy_input, observed,
                      dropped>>

\* async_remove_config_entry_device after the close() has returned.
RemoveDeviceReturns(dev_id) ==
    LET e == OwnerOf(dev_id)
        idx == EntryIndex(stored_entries, e)
        r == remove_device_finish(stored_entries[idx].data, dev_id, now)
        fired == ListenersFired(unsub_listener, e, r.writes)
    IN /\ remove_calls[dev_id] > 0
       /\ r.now <= MaxTime
       /\ remove_calls' = [remove_calls EXCEPT ![dev_id] = @ - 1]
       /\ stored_entries' = IF r.writes > 0
                            THEN async_update_entry(stored_entries, idx, r.data)
                            ELSE stored_entries
       /\ now' = r.now
       /\ reloads' = [reloads EXCEPT ![e] = @ + fired]
       /\ last' = Did("async_remove_config_entry_device", dev_id, r.result, NoCalls,
                      NoCalls, NoCalls, r.writes)
       /\ UNCHANGED <<tuya_devices, ip_cache, entry_state, unsub_listener, tasks,
                      mig_queue, passes, legacy_input, observed, dropped>>

(***************************************************************************)
(* The running integration                                                 *)
(***************************************************************************)
DispatchIds == Devs \cup {UnregisteredId}

DiscoveryRecords ==
    [gwId : Devs \cup {UnregisteredId}, ip : IPs, productKey : PKs]

\* The Session whose close() raises during an unload, "none" for no failure.
\* Failing close() calls are followed where the unload is what is observed;
\* elsewhere every close() succeeds.
CloseFailures ==
    IF observed = "async_unload_entry" THEN Devs \cup {"none"} ELSE {"none"}

Next ==
    \/ \E d \in DispatchIds : HandleSetDp(d)
    \/ AsyncReconnect
    \/ \E rec \in DiscoveryRecords : DeviceDiscovered(rec)
    \/ HandleReload
    \/ \E d \in Devs, ok \in BOOLEAN : ConnectEnds(d, ok)
    \/ \E d \in Devs : ConnectionLost(d)
    \/ \E e \in EntryIds : SetupEntry(e)
    \/ \E e \in EntryIds : SetupEntitiesCreate(e)
    \/ \E e \in EntryIds : SetupEntitiesConnect(e)
    \/ \E e \in EntryIds, ok \in BOOLEAN, failing \in CloseFailures :
          UnloadEntry(e, ok, failing)
    \/ \E e \in EntryIds, ok \in BOOLEAN, failing \in CloseFailures :
          UpdateListener(e, ok, failing)
    \/ \E e \in EntryIds : \E d \in EntryDevs[e] : RemoveDevice(e, <<"local", d>>)
    \/ \E d \in Devs : RemoveDeviceReturns(d)

Spec == Init /\ [][Next]_vars

\* The same integration with the invocations of one handler recorded.
InitSetDp == InitEntries /\ observed = "_handle_set_dp"

SpecSetDp == InitSetDp /\ [][Next]_vars

InitReconnect == InitEntries /\ observed = "_async_reconnect"

SpecReconnect == InitReconnect /\ [][Next]_vars

InitDiscovered == InitEntries /\ observed = "_device_discovered"

SpecDiscovered == InitDiscovered /\ [][Next]_vars

InitRemove == InitEntries /\ observed = "async_remove_config_entry_device"

SpecRemove == InitRemove /\ [][Next]_vars

InitUnload == InitEntries /\ observed = "async_unload_entry"

SpecUnload == InitUnload /\ [][Next]_vars

\* The store with a version-1 entry left beside the account entry: e2 has
\* not been migrated.
InitSetup ==
    /\ stored_entries =
         << stored_entries_e1, LegacyEntry("e2", "d3", "ipA") >>
    /\ InitRuntime
    /\ mig_queue = <<>>
    /\ passes = 0
    /\ legacy_input = {}
    /\ observed = "async_setup_entry"

SpecSetup == InitSetup /\ [][Next]_vars

\* The same integration with the Sessions the session map forgets recorded.
InitSessions == InitEntries /\ observed = "sessions"

SpecSessions == InitSessions /\ [][Next]_vars

(***************************************************************************)
(* Migration at startup: the version-1 entries of the store are handed to  *)
(* async_migrate_entry one after the other, in the order the store         *)
(* enumerates them, before any entry is set up.                            *)
(***************************************************************************)
LegacyStores ==
    UNION {{[i \in 1..n |-> LegacyEntry(LegacyIds[i], devs[i], hosts[i])] :
              devs \in {s \in [1..n -> LegacyDevs] :
                          \A i, j \in 1..n : i # j => s[i] # s[j]},
              hosts \in [1..n -> IPs]}
           : n \in 0..MaxLegacy}

InitMig ==
    /\ stored_entries \in LegacyStores
    /\ InitRuntime
    /\ mig_queue = <<>>
    /\ passes = 0
    /\ legacy_input = {stored_entries[i].data.device_id : i \in 1..Len(stored_entries)}
    /\ observed = "async_migrate_entry"

\* A start of the application: every stored entry is due for
\* async_migrate_entry, in the store's order.
MigrationPass ==
    /\ mig_queue = <<>>
    /\ passes < MaxPasses
    /\ mig_queue' = [i \in 1..Len(stored_entries) |-> stored_entries[i].entry_id]
    /\ passes' = passes + 1
    /\ last' = Idle
    /\ UNCHANGED <<stored_entries, tuya_devices, ip_cache, entry_state,
                   unsub_listener, tasks, reloads, remove_calls, now,
                   legacy_input, observed, dropped>>

MigrateEntry ==
    /\ mig_queue # <<>>
    /\ LET id == Head(mig_queue)
           r == async_migrate_entry(stored_entries,
                                    EntryIndex(stored_entries, id), now)
       IN /\ stored_entries' = r.entries
          /\ now' = r.now
          /\ last' = Did("async_migrate_entry", id, r.result, NoCalls, NoCalls,
                         NoCalls, r.now - now)
    /\ mig_queue' = Tail(mig_queue)
    /\ UNCHANGED <<tuya_devices, ip_cache, entry_state, unsub_listener, tasks,
                   reloads, remove_calls, passes, legacy_input, observed,
                   dropped>>

NextMig == MigrationPass \/ MigrateEntry

SpecMig == InitMig /\ [][NextMig]_vars

(***************************************************************************)
(* Properties                                                              *)
(***************************************************************************)
\* host of the DeviceRecord of a registered device
HostIn(entries, d) ==
    entries[async_config_entry_by_device_id(entries, d)].data.devices[d].host

\* updated_at of the entry that holds the DeviceRecord of a registered device
UpdatedAtIn(entries, d) ==
    entries[async_config_entry_by_device_id(entries, d)].data.updated_at

\* C1: set_dp on an id without a Session fails with "unknown device id"; on
\* a Session that is not connected it fails with "not connected to device";
\* otherwise the Session's set_dp is invoked exactly once.  In the two
\* failing cases set_dp is invoked on no Session, and in every case the
\* registry and the session map are unchanged.
C1_SetDpDispatch ==
    [][\A d \in DispatchIds : (last'.arg = d /\ HandleSetDp(d)) =>
         /\ d \notin DOMAIN tuya_devices =>
              last'.result = "unknown device id" /\ last'.set_dps = NoCalls
         /\ (d \in DOMAIN tuya_devices /\ tuya_devices[d].status # "connected") =>
              last'.result = "not connected to device" /\ last'.set_dps = NoCalls
         /\ (d \in DOMAIN tuya_devices /\ tuya_devices[d].status = "connected") =>
              last'.result = "ok" /\ last'.set_dps = [NoCalls EXCEPT ![d] = 1]
         /\ stored_entries' = stored_entries
         /\ tuya_devices' = tuya_devices]_vars

\* A set_dp was delegated to a connected Session while another Session was
\* not connected.
C1_Witness ==
    /\ observed = "_handle_set_dp"
    /\ last.result = "ok"
    /\ last.set_dps[last.arg] = 1
    /\ \E d \in DOMAIN tuya_devices : tuya_devices[d].status # "connected"

\* C2: a discovery record for a registered device whose address differs from
\* the stored one leaves the registry with the record's address for that
\* device and a refreshed updated_at, whether or not the address was seen
\* before.
C2_MatchAndUpdate ==
    [][\A rec \in DiscoveryRecords :
         (/\ last'.arg = rec.gwId
          /\ DeviceDiscovered(rec)
          /\ rec.gwId \in RegisteredDevs
          /\ HostIn(stored_entries, rec.gwId) # rec.ip)
         => /\ HostIn(stored_entries', rec.gwId) = rec.ip
            /\ UpdatedAtIn(stored_entries', rec.gwId)
                 # UpdatedAtIn(stored_entries, rec.gwId)]_vars

\* C3: once a discovery record has been processed, processing the same
\* record again makes no registry write.
C3_RepeatIsNoOp ==
    [][\A rec \in DiscoveryRecords : (last'.arg = rec.gwId /\ DeviceDiscovered(rec)) =>
         LET again == _device_discovered(stored_entries', ip_cache', tuya_devices',
                                         now', rec)
         IN again.writes = 0 /\ again.now = now']_vars

\* A discovery record was processed and wrote the registry.
C3_Witness ==
    /\ observed = "_device_discovered"
    /\ last.result = "ok"
    /\ last.writes > 0

\* C4: a discovery record whose identity is the device id of no DeviceRecord
\* changes nothing in the registry, adds no Session and invokes no connect().
C4_NonMatchFrame ==
    [][\A rec \in DiscoveryRecords :
         (/\ last'.arg = rec.gwId
          /\ DeviceDiscovered(rec)
          /\ rec.gwId \notin RegisteredDevs)
         => /\ stored_entries' = stored_entries
            /\ tuya_devices' = tuya_devices
            /\ last'.connects = NoCalls
            /\ last'.writes = 0]_vars

\* A record of the removed gateway d1 was processed while its sub-device d2
\* is registered with a disconnected Session.
C4_Witness ==
    /\ observed = "_device_discovered"
    /\ last.arg = "d1"
    /\ "d1" \notin RegisteredDevs
    /\ "d2" \in RegisteredDevs
    /\ "d2" \in DOMAIN tuya_devices
    /\ tuya_devices["d2"].status = "disconnected"

\* C5: a sweep invokes connect() exactly once on every Session that is not
\* connected and never on a connected one, and changes neither the registry
\* nor the set of Sessions.
C5_SweepConnects ==
    [][(last'.result = "ok" /\ AsyncReconnect) =>
         /\ \A d \in Devs :
              last'.connects[d] =
                 IF d \in DOMAIN tuya_devices /\ tuya_devices[d].status # "connected"
                 THEN 1 ELSE 0
         /\ DOMAIN tuya_devices' = DOMAIN tuya_devices
         /\ stored_entries' = stored_entries]_vars

\* A sweep connected one Session and left a connected one alone.
C5_Witness ==
    /\ observed = "_async_reconnect"
    /\ last.result = "ok"
    /\ \E d1, d2 \in DOMAIN tuya_devices :
          /\ last.connects[d1] = 1
          /\ last.connects[d2] = 0
          /\ tuya_devices[d2].status = "connected"

\* C6: once async_migrate_entry has run for each of the version-1 entries
\* (distinct device ids), the store holds exactly one entry, the first one,
\* at the latest version, whose devices mapping holds exactly the device ids
\* of the version-1 entries, each under its own id; no version-1 entry
\* remains.
C6_MigrationMerge ==
    (passes >= 1 /\ mig_queue = <<>> /\ legacy_input # {}) =>
        /\ Len(stored_entries) = 1
        /\ stored_entries[1].entry_id = LegacyIds[1]
        /\ stored_entries[1].version = ENTRIES_VERSION
        /\ HasDevices(stored_entries[1].data)
        /\ DOMAIN stored_entries[1].data.devices = legacy_input
        /\ \A d \in legacy_input :
              stored_entries[1].data.devices[d].device_id = d
        /\ \A i \in 1..Len(stored_entries) : stored_entries[i].version # 1

\* The migration of several version-1 entries has ended, the last of them
\* folded into the first.
C6_Witness ==
    /\ observed = "async_migrate_entry"
    /\ passes = 1
    /\ mig_queue = <<>>
    /\ Cardinality(legacy_input) >= 2
    /\ last.result = "True"
    /\ last.writes = 1

\* C7: async_migrate_entry on an entry at the latest version returns True
\* and changes nothing in the store, so a second migration of the same store
\* leaves it as the first one did.
C7_MigrationIdempotent ==
    [][/\ (/\ mig_queue # <<>>
           /\ EntryOf(Head(mig_queue)).version = ENTRIES_VERSION
           /\ MigrateEntry)
          => /\ stored_entries' = stored_entries
             /\ now' = now
             /\ last'.result = "True"
       /\ passes >= 2 => stored_entries' = stored_entries]_vars

\* A second migration has run over a store the first one merged.
C7_Witness ==
    /\ observed = "async_migrate_entry"
    /\ passes >= 2
    /\ mig_queue = <<>>
    /\ legacy_input # {}
    /\ last.result = "True"
    /\ last.writes = 0

\* C8: async_remove_config_entry_device for a device id held by the entry's
\* devices mapping succeeds in every state: close() is invoked on the
\* device's Session, and the devices mapping loses exactly that device, with
\* updated_at stamped.
C8_RemovePresent ==
    [][\A e \in EntryIds : \A d \in EntryDevs[e] :
         /\ (/\ last'.arg = d
             /\ RemoveDevice(e, <<"local", d>>)
             /\ d \in DOMAIN DevicesOf(e))
            => last'.result = "close" /\ last'.closes[d] = 1
         /\ (last'.arg = d /\ RemoveDeviceReturns(d))
            => /\ last'.result = "True"
               /\ EntryOf(e).data.devices' = DictPop(DevicesOf(e), d)
               /\ EntryOf(e).data.updated_at' # EntryOf(e).data.updated_at]_vars

\* C9: async_remove_config_entry_device for a device id absent from the
\* entry's devices mapping returns True, invokes no close(), writes nothing,
\* and leaves the registry and every Session as they were.
C9_RemoveAbsent ==
    [][\A e \in EntryIds : \A d \in EntryDevs[e] :
         (/\ last'.arg = d
          /\ RemoveDevice(e, <<"local", d>>)
          /\ d \notin DOMAIN DevicesOf(e))
         => /\ last'.result = "True"
            /\ last'.closes = NoCalls
            /\ last'.writes = 0
            /\ stored_entries' = stored_entries
            /\ tuya_devices' = tuya_devices]_vars

\* The removal of a device the registry no longer holds has returned while a
\* Session of that device is still in the session map.
C9_Witness ==
    /\ observed = "async_remove_config_entry_device"
    /\ last.result = "True"
    /\ last.writes = 0
    /\ last.arg \notin RegisteredDevs
    /\ last.arg \in DOMAIN tuya_devices

\* Every entry is loaded and no task, reload or removal is in flight.
Running ==
    /\ \A e \in EntryIds : entry_state[e] = "loaded"
    /\ InFlight = 0

\* C10: while the application is running, the device ids with a Session in
\* the session map are the device ids with a DeviceRecord in the registry.
C10_SessionsMatchRegistry ==
    Running => DOMAIN tuya_devices = RegisteredDevs

\* devices mapping of the entry that holds the DeviceRecord of a device
DevicesIn(entries, d) ==
    entries[async_config_entry_by_device_id(entries, d)].data.devices

\* C11: when a discovery record makes the callback write the DeviceRecord of
\* a device (address or product key changed), the callback does not invoke
\* connect() on that device's Session.
C11_NoConnectAfterWrite ==
    [][\A rec \in DiscoveryRecords :
         (/\ last'.arg = rec.gwId
          /\ DeviceDiscovered(rec)
          /\ last'.writes > 0)
         => \A d \in RegisteredDevs :
               DevicesIn(stored_entries', d)[d] # DevicesIn(stored_entries, d)[d]
                  => last'.connects[d] = 0]_vars

\* C12: the discovery callback returns normally for every record in every
\* state, a registered device without a Session included.
C12_DiscoveryNeverRaises ==
    [][\A rec \in DiscoveryRecords :
         (last'.arg = rec.gwId /\ DeviceDiscovered(rec))
         => last'.result = "ok"]_vars

\* C13: no device has two Sessions whose connection is open or being opened:
\* one the session map has forgotten and its replacement in the map.
C13_OneActiveSession ==
    \A d \in Devs :
       ~(d \in dropped /\ d \in DOMAIN tuya_devices /\ Active(tuya_devices[d]))

\* C14: unloading an entry invokes close() only on Sessions of devices in
\* that entry's devices mapping, and the Sessions of every other device stay
\* in the session map as they were.
C14_UnloadScoped ==
    [][\A e \in EntryIds : \A ok \in BOOLEAN :
         (last'.arg = e /\ UnloadEntry(e, ok, "none"))
         => /\ \A d \in Devs \ DOMAIN DevicesOf(e) : last'.closes[d] = 0
            /\ \A d \in DOMAIN tuya_devices \ DOMAIN DevicesOf(e) :
                  /\ d \in DOMAIN tuya_devices'
                  /\ tuya_devices'[d] = tuya_devices[d]]_vars

\* C16: when close() fails for one Session during an unload, close() is
\* still invoked on every other connected Session of the entry, and the
\* unload returns instead of raising.
C16_BestEffortUnload ==
    [][\A e \in EntryIds : \A ok \in BOOLEAN : \A failing \in Devs :
         (/\ last'.arg = e
          /\ failing \in DOMAIN tuya_devices
          /\ Connected(tuya_devices[failing])
          /\ UnloadEntry(e, ok, failing))
         => /\ last'.result = "True"
            /\ \A d \in DOMAIN DevicesOf(e) \cap DOMAIN tuya_devices :
                  Connected(tuya_devices[d]) => last'.closes[d] = 1]_vars

\* C15: connect() is first invoked on a Session that an activation created
\* only after the platforms of the entry are set up: while setup_entities
\* awaits the platform setup, the Sessions it created are disconnected with
\* no attempt in flight.
C15_ConnectAfterAttach ==
    \A e \in EntryIds :
       Task(e, "forwarding") \in tasks =>
          \A d \in DOMAIN DevicesOf(e) \cap DOMAIN tuya_devices :
             tuya_devices[d].status = "disconnected"

\* C17: the reload that a write to a loaded entry triggers leaves in the
\* session map no Session created before the write: after its unload, the
\* only Sessions still in the map are those of registered devices, which the
\* re-activation replaces.
C17_ReloadLeavesNoStaleSession ==
    [][\A e \in EntryIds : \A ok \in BOOLEAN :
         (/\ entry_state[e] = "loaded"
          /\ reloads[e] > 0
          /\ UpdateListener(e, ok, "none"))
         => DOMAIN tuya_devices' \subseteq RegisteredDevs]_vars

\* C18: async_setup_entry on an entry whose version is lower than
\* ENTRIES_VERSION spawns no setup_entities (no Session, no platform, no
\* connect()) and registers no update listener; setup_entities creates
\* Sessions only for an entry at ENTRIES_VERSION.
C18_VersionGate ==
    [][\A e \in EntryIds :
         /\ (/\ last'.arg = e
             /\ EntryOf(e).version < ENTRIES_VERSION
             /\ SetupEntry(e))
            => /\ tuya_devices' = tuya_devices
               /\ tasks' = tasks
               /\ unsub_listener' = unsub_listener
               /\ last'.connects = NoCalls
         /\ (Task(e, "created") \in tasks /\ SetupEntitiesCreate(e))
            => EntryOf(e).version = ENTRIES_VERSION]_vars

\* async_setup_entry has returned on the version-1 entry e2 while the
\* account entry e1 is loaded with its Sessions.
C18_Witness ==
    /\ observed = "async_setup_entry"
    /\ last.arg = "e2"
    /\ EntryOf("e2").version < ENTRIES_VERSION
    /\ entry_state["e1"] = "loaded"
    /\ DOMAIN tuya_devices = {"d1", "d2"}
    /\ "e2" \notin unsub_listener

\* C19: a removal that found the device in the entry before its await on
\* close() finds it there after the await and returns True: no other
\* mutator has invalidated its presence check.
C19_AtomicMutation ==
    [][\A d \in Devs :
         (last'.arg = d /\ RemoveDeviceReturns(d))
         => /\ d \in DOMAIN DevicesOf(OwnerOf(d))
            /\ last'.result = "True"]_vars

\* The devices of the looked-up entry that a discovery record matches.
MatchedBy(rec) ==
    {d \in DOMAIN DevicesIn(stored_entries, rec.gwId) :
        IdMatches(rec.gwId, d, DevicesIn(stored_entries, rec.gwId)[d])}

\* The record carries what the registry holds for the device.
AlreadyStored(rec, d) ==
    LET dev_entry == DevicesIn(stored_entries, rec.gwId)[d]
    IN /\ dev_entry.host = rec.ip
       /\ rec.gwId = d => dev_entry.product_key = rec.productKey

\* C20: a record with an address not seen before, for a registered device,
\* that carries what the registry already holds for every device it matches
\* makes no write; connect() is invoked once on the Session of a matched
\* device if the Session is in the map and disconnected, and not at all if
\* it is connected or absent, nor on any other Session.
C20_ConnectOnMatch ==
    [][\A rec \in DiscoveryRecords :
         (/\ last'.arg = rec.gwId
          /\ rec.gwId \in RegisteredDevs
          /\ rec.ip \notin ip_cache
          /\ \A d \in MatchedBy(rec) : AlreadyStored(rec, d)
          /\ DeviceDiscovered(rec))
         => /\ last'.writes = 0
            /\ stored_entries' = stored_entries
            /\ \A d \in Devs :
                  IF d \in MatchedBy(rec) /\ d \in DOMAIN tuya_devices
                  THEN /\ tuya_devices[d].status = "disconnected"
                            => last'.connects[d] = 1
                       /\ tuya_devices[d].status = "connected"
                            => last'.connects[d] = 0
                       /\ last'.connects[d] <= 1
                  ELSE last'.connects[d] = 0]_vars

\* A record of the gateway d1 that changed nothing connected the
\* disconnected Session of d1 and left the connected Session of d2 alone.
C20_Witness ==
    /\ observed = "_device_discovered"
    /\ last.arg = "d1"
    /\ last.result = "ok"
    /\ last.writes = 0
    /\ last.connects["d1"] = 1
    /\ last.connects["d2"] = 0
    /\ "d2" \in DOMAIN tuya_devices
    /\ tuya_devices["d2"].status = "connected"

====
